---- MODULE Spec2Model ----
(***************************************************************************)
(* Model of the ETL pipeline of bloc1_analyse_donnees/etl_pipeline.py:     *)
(* the class ETLPipeline (generer_donnees_test, extraire_donnees,          *)
(* analyser_qualite_donnees, nettoyer_donnees, agreger_donnees,            *)
(* charger_donnees, generer_rapport_etl) and main.                         *)
(*                                                                         *)
(* A DataFrame is a sequence of rows (records).  A cell that pandas may    *)
(* hold as NaN/None is a sequence of length 0 (missing) or 1 (present).    *)
(* Numbers that go through a median (latitude, longitude, score_credit)    *)
(* are stored in half-units (the raw value v is stored as 2*v), so that    *)
(* the median of an even number of values, the mean of the two middle      *)
(* ones, is exact.  A mean (duree_moy_session_sec) is a reduced fraction.  *)
(* The pass-through columns of each table are carried by one               *)
(* representative column (canal, age, action).                             *)
(***************************************************************************)
EXTENDS Integers, Sequences, FiniteSets, TLC

(* ------------------------------ bounds ------------------------------- *)

\* rows of the extracted transaction table in the row-filter family
MaxLignes == 2
\* rows of the extracted transaction table in the imputation family
MaxImput == 3
\* rows of each extracted table in the join family
MaxJoin == 2
\* transactions asked of the generator
MaxN == 2
\* executions of the script (main) in one behaviour
MaxRuns == 2
\* client identifiers the generator draws from (randint(1, 5000) in the code)
MaxClientId == 2
\* internal states random.seed(42) / Faker.seed(42) may stand for
MaxGraine == 31
\* days the wall clock may advance between two executions
MaxHorloge == 1

(* ------------------------------- cells ------------------------------- *)

\* pandas NaN / None
NaN == << >>

Some(v) == << v >>

\* Series.isna, on one cell
isna(c) == c = NaN

Val(c) == c[1]

\* Series.fillna(value): a missing cell takes the fill cell (which may itself be NaN)
fillna(c, fill) == IF isna(c) THEN fill ELSE c

\* a date held as text: the ISO text of the instant t when t >= 0, a text that is
\* no date when t < 0; and the datetime cell pd.to_datetime makes of a date text
Str(t) == [typ |-> "str", val |-> t]

Datetime(t) == [typ |-> "datetime", val |-> t]

\* the same date in its other ISO spelling ('T' between date and time)
StrT(t) == [typ |-> "strT", val |-> t]

\* whether pd.to_datetime accepts the cell
Parsable(c) == c.typ = "datetime" \/ c.val >= 0

\* faulty variant of to_datetime: a time-zone shift applied at every conversion
to_datetime_decale(c) == Datetime(c.val + 1)

\* pd.to_datetime on one cell (the caller checks Parsable on the whole column)
to_datetime(c) == IF c.typ = "datetime" THEN c ELSE Datetime(c.val)

(* ----------------------------- sequences ----------------------------- *)

Range(s) == {s[i] : i \in 1..Len(s)}

\* the rows of t whose index is in idx, in their original order
FilterIdx(t, idx) ==
    LET F[i \in 0..Len(t)] ==
            IF i = 0 THEN << >>
            ELSE LET p == F[i - 1] IN IF i \in idx THEN Append(p, t[i]) ELSE p
    IN F[Len(t)]

\* insertion of x into the ascending sequence s
RECURSIVE Insert(_, _)
Insert(s, x) ==
    IF s = << >> THEN << x >>
    ELSE IF x <= Head(s) THEN << x >> \o s
         ELSE << Head(s) >> \o Insert(Tail(s), x)

RECURSIVE Sort(_)
Sort(s) == IF s = << >> THEN << >> ELSE Insert(Sort(Tail(s)), Head(s))

RECURSIVE Sum(_)
Sum(s) == IF s = << >> THEN 0 ELSE Head(s) + Sum(Tail(s))

RECURSIVE Gcd(_, _)
Gcd(a, b) == IF b = 0 THEN a ELSE Gcd(b, a % b)

\* the values of the present cells of a column, in row order
Present(col) ==
    LET F[i \in 0..Len(col)] ==
            IF i = 0 THEN << >>
            ELSE IF isna(col[i]) THEN F[i - 1] ELSE Append(F[i - 1], Val(col[i]))
    IN F[Len(col)]

\* df[c]: the column c of a table
Column(t, c) == [i \in 1..Len(t) |-> t[i][c]]

\* Series.isna().sum()
nb_nan(col) == Cardinality({i \in 1..Len(col) : isna(col[i])})

(* ------------------------- pandas operations ------------------------- *)

\* Series.median: NaN cells are skipped; an empty column has median NaN
median(col) ==
    LET v == Sort(Present(col))
        n == Len(v)
    IN IF n = 0 THEN NaN
       ELSE IF n % 2 = 1 THEN Some(v[(n + 1) \div 2])
            ELSE Some((v[n \div 2] + v[n \div 2 + 1]) \div 2)

\* the strings of the categorical columns, in the order pandas sorts them
OrdreAlpha ==
    << "AUTRE", "ESSENCE", "LOISIRS", "PHARMACIE", "RESTAURANT", "SUPERMARCHE", "VETEMENTS" >>

\* Series.mode: the most frequent present values, sorted; empty when all are missing
mode(col) ==
    LET vals == Present(col)
        count(x) == Cardinality({i \in 1..Len(vals) : vals[i] = x})
        best == {x \in Range(vals) : \A y \in Range(vals) : count(y) <= count(x)}
    IN SelectSeq(OrdreAlpha, LAMBDA x : x \in best)

\* Series.unique(): the values in order of first occurrence
unique(s) == FilterIdx(s, {i \in 1..Len(s) : \A j \in 1..(i - 1) : s[j] # s[i]})

\* DataFrame.drop_duplicates(subset, keep='first'): a row is dropped when an earlier
\* row agrees with it on every column of subset
drop_duplicates(t, subset) ==
    FilterIdx(t, {i \in 1..Len(t) :
                    \A j \in 1..(i - 1) : \E c \in subset : t[j][c] # t[i][c]})

\* DataFrame.duplicated().sum(): rows equal to an earlier row in every field
nb_duplicated(t) ==
    Cardinality({i \in 1..Len(t) : \E j \in 1..(i - 1) : t[j] = t[i]})

\* faulty variant of merge_left: how='inner', a left row without a match is dropped
merge_inner(L, R, pad) ==
    LET matches(l) == SelectSeq(R, LAMBDA r : r.client_id = l.client_id)
        rows(l) == [k \in 1..Len(matches(l)) |-> l @@ matches(l)[k]]
        F[i \in 0..Len(L)] == IF i = 0 THEN << >> ELSE F[i - 1] \o rows(L[i])
    IN F[Len(L)]

\* DataFrame.merge(how='left', on='client_id'): every left row, in order, once per
\* matching right row (in right order), or once with the right columns all NaN (pad)
\* when none matches
merge_left(L, R, pad) ==
    LET matches(l) == SelectSeq(R, LAMBDA r : r.client_id = l.client_id)
        rows(l) == IF matches(l) = << >> THEN << l @@ pad >>
                   ELSE [k \in 1..Len(matches(l)) |-> l @@ matches(l)[k]]
        F[i \in 0..Len(L)] == IF i = 0 THEN << >> ELSE F[i - 1] \o rows(L[i])
    IN F[Len(L)]

\* a mean, as a reduced fraction
Frac(n, d) == LET g == Gcd(n, d) IN [num |-> n \div g, den |-> d \div g]

\* df_logs.groupby('client_id').agg(count, mean).reset_index(): one row per
\* client_id of the logs, keys ascending
groupby_client(logs) ==
    LET keys == Sort(Present([i \in 1..Len(logs) |-> Some(logs[i].client_id)]))
        uniq == unique(keys)
        rows(k) == SelectSeq(logs, LAMBDA r : r.client_id = k)
    IN [i \in 1..Len(uniq) |->
          [client_id |-> uniq[i],
           nb_sessions |-> Len(rows(uniq[i])),
           duree_moy_session_sec |->
               Frac(Sum([j \in 1..Len(rows(uniq[i])) |-> rows(uniq[i])[j].duree_session_sec]),
                    Len(rows(uniq[i])))]]

(* ---------------------- analyser_qualite_donnees ---------------------- *)

SeuilMontantExtreme == 10000
LatitudeMin == -90
LatitudeMax == 90

\* the nullable columns of each table, by name
Colonnes(nom) ==
    CASE nom = "transactions" ->
           {"montant", "merchant_category", "ville", "latitude", "longitude"}
      [] nom = "clients" -> {"score_credit", "date_derniere_fraude"}
      [] OTHER -> {}

\* every column of each table (len(df.columns))
ToutesColonnes(nom) ==
    CASE nom = "transactions" ->
           {"transaction_id", "client_id", "montant", "date_heure", "merchant_category",
            "ville", "latitude", "longitude", "canal", "is_fraud"}
      [] nom = "clients" ->
           {"client_id", "age", "score_credit", "date_derniere_fraude"}
      [] OTHER -> {"session_id", "client_id", "timestamp", "action", "duree_session_sec"}

\* round(nb_nan / len(df) * 100, 2), in hundredths of a percent
pct(n, total) == (((n * 100000) \div total) + 5) \div 10

\* faulty variant of valeurs_manquantes: notna() in place of isna()
valeurs_manquantes_notna(df, nom_source) ==
    LET presentes == {c \in Colonnes(nom_source) :
                         Len(df) - nb_nan(Column(df, c)) > 0}
    IN [c \in presentes |->
           [count |-> Len(df) - nb_nan(Column(df, c)),
            pct |-> pct(Len(df) - nb_nan(Column(df, c)), Len(df))]]

\* stats['valeurs_manquantes']: an entry for each column with nb_nan > 0
valeurs_manquantes(df, nom_source) ==
    LET manquantes == {c \in Colonnes(nom_source) :
                          nb_nan(Column(df, c)) > 0}
    IN [c \in manquantes |->
           [count |-> nb_nan(Column(df, c)),
            pct |-> pct(nb_nan(Column(df, c)), Len(df))]]

analyser_qualite_donnees(df, nom_source) ==
    [nom |-> nom_source,
        nb_lignes |-> Len(df),
        nb_colonnes |-> Cardinality(ToutesColonnes(nom_source)),
        valeurs_manquantes |-> valeurs_manquantes(df, nom_source),
        doublons |-> nb_duplicated(df),
        anomalies |->
            IF nom_source = "transactions"
            THEN [montants_negatifs |->
                      Cardinality({i \in 1..Len(df) :
                          ~isna(df[i].montant) /\ Val(df[i].montant) < 0}),
                  montants_extremes |->
                      Cardinality({i \in 1..Len(df) :
                          ~isna(df[i].montant) /\ Val(df[i].montant) > SeuilMontantExtreme}),
                  coordonnees_invalides |->
                      Cardinality({i \in 1..Len(df) :
                          /\ ~isna(df[i].latitude)
                          /\ \/ Val(df[i].latitude) < 2 * LatitudeMin
                             \/ Val(df[i].latitude) > 2 * LatitudeMax})]
            ELSE << >>]

(* -------------------------- nettoyer_donnees -------------------------- *)

\* latitude / longitude: fillna(median of the column)
imputer_coordonnees(df) ==
    LET med_lat == median(Column(df, "latitude"))
        med_lon == median(Column(df, "longitude"))
    IN [i \in 1..Len(df) |->
          [df[i] EXCEPT !.latitude = fillna(@, med_lat),
                        !.longitude = fillna(@, med_lon)]]

\* ville: fillna('VILLE_INCONNUE')
imputer_ville(df) ==
    [i \in 1..Len(df) |-> [df[i] EXCEPT !.ville = fillna(@, Some("VILLE_INCONNUE"))]]

\* mode()[0] if the mode is not empty, else 'AUTRE'
mode_cat(df) ==
    LET m == mode(Column(df, "merchant_category"))
    IN IF m # << >> THEN m[1] ELSE "AUTRE"

\* merchant_category: fillna(mode_cat)
imputer_categorie(df) ==
    [i \in 1..Len(df) |->
        [df[i] EXCEPT !.merchant_category = fillna(@, Some(mode_cat(df)))]]

\* faulty variant of supprimer_doublons: keep=False, every row of a duplicated identifier
\* is dropped
supprimer_doublons_keep_false(df) ==
    FilterIdx(df, {i \in 1..Len(df) :
                     \A j \in (1..Len(df)) \ {i} :
                        df[j].transaction_id # df[i].transaction_id})

\* drop_duplicates(subset=['transaction_id'], keep='first')
supprimer_doublons(df) == drop_duplicates(df, {"transaction_id"})

\* faulty variant of filtrer_montants: df_trans[~(df_trans['montant'] < 0)], which keeps NaN
filtrer_montants_negatifs(df) ==
    SelectSeq(df, LAMBDA r : isna(r.montant) \/ Val(r.montant) >= 0)

\* df_trans[df_trans['montant'] >= 0]: a comparison with NaN is False
filtrer_montants(df) ==
    SelectSeq(df, LAMBDA r : ~isna(r.montant) /\ Val(r.montant) >= 0)

\* df_trans['date_heure'] = pd.to_datetime(df_trans['date_heure'])
convertir_date_heure(df) ==
    [i \in 1..Len(df) |-> [df[i] EXCEPT !.date_heure = to_datetime(@)]]

\* faulty variant of filtrer_transactions: the rows are filtered first, and the
\* imputations read the columns of the rows that remain
filtrer_avant_imputation(df) ==
    imputer_categorie(imputer_ville(imputer_coordonnees(
        filtrer_montants(supprimer_doublons(df)))))

\* the transaction table up to the row filters (before the date conversion)
filtrer_transactions(df) ==
    filtrer_montants(supprimer_doublons(
        imputer_categorie(imputer_ville(imputer_coordonnees(df)))))

\* pd.to_datetime raises on the transaction table
echec_transactions(df) ==
    \E i \in 1..Len(filtrer_transactions(df)) :
        ~Parsable(filtrer_transactions(df)[i].date_heure)

nettoyer_transactions(df) == convertir_date_heure(filtrer_transactions(df))

\* faulty variant of nettoyer_clients: the clients without a score are dropped
\* (dropna) in place of the imputation
nettoyer_clients_dropna(df) == SelectSeq(df, LAMBDA r : ~isna(r.score_credit))

\* score_credit: fillna(median of the column)
nettoyer_clients(df) ==
    LET mediane == median(Column(df, "score_credit"))
    IN [i \in 1..Len(df) |-> [df[i] EXCEPT !.score_credit = fillna(@, mediane)]]

\* df_logs['timestamp'] raises KeyError on the column-less frame of an empty record
\* list; pd.to_datetime raises on a text that is no date
echec_logs(df) ==
    \/ Len(df) = 0
    \/ \E i \in 1..Len(df) : ~Parsable(df[i].timestamp)

\* faulty variant of nettoyer_logs: duplicates looked for on the session key alone
nettoyer_logs_cle_session(df) ==
    drop_duplicates([i \in 1..Len(df) |-> [df[i] EXCEPT !.timestamp = to_datetime(@)]],
                    {"session_id"})

\* timestamp conversion, then drop_duplicates() on all columns
nettoyer_logs(df) ==
    drop_duplicates([i \in 1..Len(df) |-> [df[i] EXCEPT !.timestamp = to_datetime(@)]],
                    ToutesColonnes("logs"))

\* what nettoyer_donnees prints about the transactions, clients and logs
journal_transactions(df) ==
    [lat_lon_imputees |-> nb_nan(Column(df, "latitude")),
     ville_imputees |-> nb_nan(Column(df, "ville")),
     categorie_imputees |-> nb_nan(Column(df, "merchant_category")),
     doublons_supprimes |-> Len(df) - Len(supprimer_doublons(df)),
     negatifs_supprimes |->
         Cardinality({i \in 1..Len(supprimer_doublons(df)) :
             /\ ~isna(supprimer_doublons(df)[i].montant)
             /\ Val(supprimer_doublons(df)[i].montant) < 0})]

journal_clients(df) ==
    [score_imputes |-> nb_nan(Column(df, "score_credit"))]

journal_logs(df) == [doublons_supprimes |-> Len(df) - Len(nettoyer_logs(df))]

(* -------------------------- agreger_donnees --------------------------- *)

\* a client row as the right side of the join: its columns become nullable
JoinClient(r) ==
    [client_id |-> r.client_id, age |-> Some(r.age), score_credit |-> r.score_credit,
     date_derniere_fraude |-> r.date_derniere_fraude]

\* the client columns of a transaction without a client
PadClient == [age |-> NaN, score_credit |-> NaN, date_derniere_fraude |-> NaN]

\* a feature row as the right side of the join
JoinFeatures(r) ==
    [client_id |-> r.client_id, nb_sessions |-> Some(r.nb_sessions),
     duree_moy_session_sec |-> Some(r.duree_moy_session_sec)]

\* the feature columns of a transaction whose client has no log
PadFeatures == [nb_sessions |-> NaN, duree_moy_session_sec |-> NaN]

\* faulty variant of jointure_clients: the client columns are attached by row position
\* (a concat along the columns) and not by client_id
jointure_clients_position(df_trans, df_clients) ==
    [i \in 1..Len(df_trans) |->
        df_trans[i] @@ (IF i <= Len(df_clients)
                        THEN [c \in DOMAIN PadClient |-> JoinClient(df_clients[i])[c]]
                        ELSE PadClient)]

\* transactions LEFT JOIN clients
jointure_clients(df_trans, df_clients) ==
    merge_left(df_trans, [i \in 1..Len(df_clients) |-> JoinClient(df_clients[i])],
               PadClient)

\* ... LEFT JOIN the features of the logs
jointure_features(df_merged, df_logs) ==
    LET features == groupby_client(df_logs)
    IN merge_left(df_merged, [i \in 1..Len(features) |-> JoinFeatures(features[i])],
                  PadFeatures)

\* faulty variant of imputer_features: the fillna(0) of duree_moy_session_sec is missing
imputer_features_partiel(df) ==
    [i \in 1..Len(df) |-> [df[i] EXCEPT !.nb_sessions = fillna(@, Some(0))]]

\* fillna(0) on the two feature columns
imputer_features(df) ==
    [i \in 1..Len(df) |->
        [df[i] EXCEPT !.nb_sessions = fillna(@, Some(0)),
                      !.duree_moy_session_sec = fillna(@, Some(Frac(0, 1)))]]

agreger(df_trans, df_clients, df_logs) ==
    imputer_features(jointure_features(jointure_clients(df_trans, df_clients), df_logs))

(* ------------------------ generer_donnees_test ------------------------ *)

\* The two pseudo-random streams (module random, and Faker's own) are deterministic
\* functions of their state; a full-period linear congruential step stands for the
\* Mersenne Twister.
RngMod == 256

rng_next(s) == (s * 5 + 3) % RngMod

RECURSIVE rng_skip(_, _)
rng_skip(s, k) == IF k = 0 THEN s ELSE rng_skip(rng_next(s), k - 1)

\* random.random(), in 64ths
random(s) == s \div 4

\* random.randint(a, b) / random.choice over b - a + 1 values
randint(s, a, b) == a + (random(s) % (b - a + 1))

\* random.uniform(a, b), rounded to the model's unit
uniform(s, a, b) == a + ((random(s) * (b - a)) \div 64)

Categories ==
    << Some("SUPERMARCHE"), Some("RESTAURANT"), Some("ESSENCE"), Some("VETEMENTS"),
       Some("PHARMACIE"), Some("LOISIRS"), NaN >>

Canaux == << "WEB", "MOBILE", "ATM", "POS" >>

Actions == << "login", "navigation_compte", "consultation_solde", "transaction", "logout" >>

\* fake.date_time_between('-30d', 'now').isoformat(), in days: an instant of the
\* last two days before the wall clock
date_time_between(f, now) == Str(now + 2 - (random(f) % 3))

\* One transaction (lines 58-91).  r is the state of random before the row, f the
\* state of Faker; the k-th call of the row reads the state after k steps.
gen_transaction(i, r, f, now) ==
    LET R(k) == rng_skip(r, k)
        is_fraud == random(R(1)) < 1
        a_ville == random(R(3)) > 1
        fv == IF a_ville THEN rng_next(f) ELSE f
        fd == rng_next(fv)
        k0 == 9
    IN [row |->
          [transaction_id |-> i,
           client_id |-> randint(R(5), 1, MaxClientId),
           montant |-> Some(IF is_fraud THEN uniform(R(2), 500, 5000)
                            ELSE uniform(R(2), 5, 2000)),
           date_heure |-> date_time_between(fd, now),
           merchant_category |-> Categories[randint(R(4), 1, 7)],
           ville |-> IF a_ville THEN Some("VILLE") ELSE NaN,
           latitude |-> IF a_ville THEN Some(2 * uniform(R(k0), 42, 51)) ELSE NaN,
           longitude |-> IF a_ville THEN Some(2 * uniform(R(k0 + 1), -4, 8)) ELSE NaN,
           canal |-> Canaux[randint(R(IF a_ville THEN k0 + 2 ELSE k0), 1, 4)],
           is_fraud |-> is_fraud],
        r |-> R(IF a_ville THEN k0 + 2 ELSE k0),
        f |-> fd]

gen_transactions(n, r, f, now) ==
    LET F[i \in 0..n] ==
            IF i = 0 THEN [rows |-> << >>, r |-> r, f |-> f]
            ELSE LET p == F[i - 1]
                     t == gen_transaction(i - 1, p.r, p.f, now)
                 IN [rows |-> Append(p.rows, t.row), r |-> t.r, f |-> t.f]
    IN F[n]

\* faulty variant of clients_uniques: the column itself, without unique()
clients_sans_unique(df_trans) == Column(df_trans, "client_id")

\* df_transactions['client_id'].unique(): the identifiers in order of first occurrence
clients_uniques(df_trans) ==
    unique(Column(df_trans, "client_id"))

\* One client (lines 104-124)
gen_client(client_id, r, f, now) ==
    LET R(k) == rng_skip(r, k)
        a_score == random(R(1)) > 6
        k0 == IF a_score THEN 2 ELSE 1
        a_fraude == random(R(k0 + 6)) < 3
        fp == rng_next(f)
    IN [row |->
          [client_id |-> client_id,
           age |-> randint(R(k0 + 1), 18, 80),
           score_credit |-> IF a_score THEN Some(2 * randint(R(2), 300, 850)) ELSE NaN,
           date_derniere_fraude |->
               IF a_fraude THEN Some(now + 2 - (random(rng_next(fp)) % 3)) ELSE NaN],
        r |-> R(k0 + 6),
        f |-> IF a_fraude THEN rng_next(fp) ELSE fp]

gen_clients(ids, r, f, now) ==
    LET F[i \in 0..Len(ids)] ==
            IF i = 0 THEN [rows |-> << >>, r |-> r, f |-> f]
            ELSE LET p == F[i - 1]
                     c == gen_client(ids[i], p.r, p.f, now)
                 IN [rows |-> Append(p.rows, c.row), r |-> c.r, f |-> c.f]
    IN F[Len(ids)]

\* faulty variant of gen_log: the client is drawn among all identifiers, as the
\* transactions draw theirs, and not among the clients generated
gen_log_tout_client(i, ids, r, f, now) ==
    LET R(k) == rng_skip(r, k)
        ft == rng_next(f)
    IN [row |->
          [session_id |-> i,
           client_id |-> randint(R(1), 1, MaxClientId),
           timestamp |-> date_time_between(ft, now),
           action |-> Actions[randint(R(2), 1, 5)],
           duree_session_sec |-> randint(R(6), 30, 3600)],
        r |-> R(6),
        f |-> rng_next(ft)]

\* One behavioural log (lines 134-152)
gen_log(i, ids, r, f, now) ==
    LET R(k) == rng_skip(r, k)
        ft == rng_next(f)
    IN [row |->
          [session_id |-> i,
           client_id |-> ids[randint(R(1), 1, Len(ids))],
           timestamp |-> date_time_between(ft, now),
           action |-> Actions[randint(R(2), 1, 5)],
           duree_session_sec |-> randint(R(6), 30, 3600)],
        r |-> R(6),
        f |-> rng_next(ft)]

gen_logs(n, ids, r, f, now) ==
    LET F[i \in 0..n] ==
            IF i = 0 THEN [rows |-> << >>, r |-> r, f |-> f]
            ELSE LET p == F[i - 1]
                     l == gen_log(i - 1, ids, p.r, p.f, now)
                 IN [rows |-> Append(p.rows, l.row), r |-> l.r, f |-> l.f]
    IN F[n]

\* the three artifacts of one call, and the state of the two streams after it
generer(nb_transactions, r, f, now) ==
    LET t == gen_transactions(nb_transactions, r, f, now)
        ids == clients_uniques(t.rows)
        c == gen_clients(ids, t.r, t.f, now)
        l == gen_logs(nb_transactions * 5, ids, c.r, c.f, now)
    IN [transactions |-> t.rows, clients |-> c.rows, logs |-> l.rows,
        r |-> l.r, f |-> l.f]

(* ------------------------------- state ------------------------------- *)

VARIABLES
    appelant,          \* who drives the object: "main" (the script) or "client" (a caller of the class)
    pc,                \* the next stage of the driver
    raw,               \* data/raw: the three raw artifacts
    processed,         \* data/processed: the directory, the *_clean.csv files, rapport_etl.json
    data_sources,      \* self.data_sources
    cleaned_data,      \* self.cleaned_data
    stats_nettoyage,   \* self.stats_nettoyage
    journal,           \* the counts nettoyer_donnees printed at its last call
    alertes,           \* the tables charger_donnees printed an integrity error for
    stats_chargement,  \* what the last charger_donnees returned (NaN: it did not return)
    erreur,            \* the exception the last call raised ("" when none)
    rng,               \* the state of random and of Faker
    graine,            \* the state seed(42) puts both streams in
    horloge,           \* the wall clock, in days
    runs,              \* executions of the script so far
    nb_transactions,   \* the argument main passes to generer_donnees_test (0: no main)
    dernier_simulate   \* the argument simulate of the last charger_donnees (default True)

vars == << appelant, pc, raw, processed, data_sources, cleaned_data, stats_nettoyage,
           journal, alertes, stats_chargement, erreur, rng, graine, horloge, runs,
           nb_transactions, dernier_simulate >>

\* a Python dict with no key
Vide == << >>

\* the order in which the tables enter cleaned_data
OrdreTables == << "transactions", "clients", "logs", "dataset_final" >>

Sources == {"transactions", "clients", "logs"}

Etapes == << "generer", "extraire", "nettoyer", "agreger", "charger", "rapport", "fin" >>

Rang(e) == CHOOSE i \in 1..Len(Etapes) : Etapes[i] = e

\* the methods a client calls a second time in a row
Rappelables == {"nettoyer", "agreger"}

\* main calls the stages in order and stops at the first exception; a client of the
\* class goes on after an exception, may call nettoyer_donnees or agreger_donnees
\* twice in a row, and may write the report without loading
Appelable(e) ==
    \/ pc = e
    \/ appelant = "client" /\ e \in Rappelables /\ pc = Etapes[Rang(e) + 1]
    \/ appelant = "client" /\ e = "rapport" /\ pc = "charger"

\* faulty variant of Suite: main wraps every call in a try/except that logs and goes on
Suite_sans_abandon(e, exc) == Etapes[Rang(e) + 1]

Suite(e, exc) ==
    IF appelant = "main" /\ exc # "" THEN "abandon" ELSE Etapes[Rang(e) + 1]

Fichier(lignes) == [etat |-> "ok", lignes |-> lignes]

Absent == [etat |-> "absent", lignes |-> << >>]

Illisible == [etat |-> "illisible", lignes |-> << >>]

ProcessedVide == [repertoire |-> FALSE, csv |-> Vide, rapport |-> NaN]

(* --------------------- the raw artifacts at start --------------------- *)

\* The artifacts a client of the class finds in data/raw come from upstream systems:
\* the initial states range over families of them, each varying the columns one
\* stage of the pipeline reads.

SeqsUpTo(S, n) == UNION {[1..k -> S] : k \in 0..n}

\* a coordinate pair (latitude, longitude) in half-degrees, or missing
Geo == {NaN, << 86, 4 >>}

Trans(id, client, montant, cat, geo, date) ==
    [transaction_id |-> id, client_id |-> client, montant |-> montant,
     date_heure |-> Str(date), merchant_category |-> cat,
     ville |-> IF geo = NaN THEN NaN ELSE Some("VILLE"),
     latitude |-> IF geo = NaN THEN NaN ELSE Some(geo[1]),
     longitude |-> IF geo = NaN THEN NaN ELSE Some(geo[2]),
     canal |-> "WEB", is_fraud |-> FALSE]

Client(id, score, fraude) ==
    [client_id |-> id, age |-> 30, score_credit |-> score, date_derniere_fraude |-> fraude]

Log(session, client, date, duree) ==
    [session_id |-> session, client_id |-> client, timestamp |-> Str(date),
     action |-> "login", duree_session_sec |-> duree]

TransRef == << Trans(1, 1, Some(10), Some("ESSENCE"), << 86, 4 >>, 1) >>

ClientsRef == << Client(1, Some(1200), NaN) >>

LogsRef == << Log(1, 1, 1, 30) >>

Raw(t, c, l) == [transactions |-> Fichier(t), clients |-> Fichier(c), logs |-> Fichier(l)]

\* duplicated identifiers, negative and missing amounts, missing coordinates
FamilleLignes ==
    {Raw(t, ClientsRef, LogsRef) :
        t \in SeqsUpTo({Trans(id, 1, m, Some("ESSENCE"), g, 1) :
                           id \in 1..2, m \in {Some(-2), Some(10), NaN}, g \in Geo},
                       MaxLignes)}

\* missing and tied merchant categories, missing and distinct coordinates
FamilleCategories ==
    {Raw([i \in 1..Len(c) |-> Trans(i, 1, Some(10), c[i][1], c[i][2], 1)],
         ClientsRef, LogsRef) :
        c \in SeqsUpTo({<< NaN, NaN >>, << Some("SUPERMARCHE"), << 86, 4 >> >>,
                        << Some("ESSENCE"), << 100, 10 >> >>}, MaxImput)}

\* missing credit scores, clients with and without a last fraud date
FamilleScores ==
    {Raw(TransRef, [i \in 1..Len(sf) |-> Client(i, sf[i][1], sf[i][2])], LogsRef) :
        sf \in SeqsUpTo({<< NaN, NaN >>, << NaN, Some(1) >>, << Some(1200), NaN >>,
                         << Some(1202), Some(1) >>}, MaxImput)}

\* transactions of clients with zero, one or several client records and logs
FamilleJointures ==
    {Raw([i \in 1..Len(tc) |-> Trans(i, tc[i], Some(10), Some("ESSENCE"), << 86, 4 >>, 1)],
         [i \in 1..Len(cc) |-> Client(cc[i], Some(1200), NaN)],
         [i \in 1..Len(ll) |-> Log(i, ll[i], 1, 30 * i + ll[i])]) :
        tc \in SeqsUpTo(1..2, MaxJoin), cc \in SeqsUpTo(1..2, MaxJoin),
        ll \in SeqsUpTo(1..2, MaxJoin)}

\* date texts that are no date, in rows the filters keep or remove; logs equal in
\* every field
FamilleDates ==
    {Raw([i \in 1..Len(td) |->
              Trans(i, 1, Some(td[i][1]), Some("ESSENCE"), << 86, 4 >>, td[i][2])],
         ClientsRef, LogsRef) :
        td \in SeqsUpTo({-2, 10} \X {-1, 1}, MaxLignes)}
    \cup {Raw(TransRef, ClientsRef, [i \in 1..Len(ld) |-> Log(1, 1, ld[i], 30)]) :
        ld \in SeqsUpTo({-1, 1, 2}, MaxLignes)}
    \cup {Raw(TransRef, ClientsRef,
               [i \in 1..Len(ld) |->
                   [Log(ld[i][1], 1, 1, 30) EXCEPT !.timestamp = ld[i][2]]]) :
        ld \in SeqsUpTo({1, 2} \X {Str(1), StrT(1)}, MaxLignes)}

\* latitudes and longitudes inside and outside their ranges, in half-degrees
FamilleCoordonnees ==
    {Raw([i \in 1..Len(g) |-> Trans(i, 1, Some(10), Some("ESSENCE"), g[i], 1)],
         ClientsRef, LogsRef) :
        g \in SeqsUpTo({NaN, << 86, 4 >>, << 200, 4 >>, << -200, 4 >>, << 86, 400 >>},
                       MaxLignes)}

\* artifacts that are absent or cannot be parsed
FamilleFichiers ==
    {[transactions |-> t, clients |-> c, logs |-> l] :
        t \in {Fichier(TransRef), Absent, Illisible},
        c \in {Fichier(ClientsRef), Absent, Illisible},
        l \in {Fichier(LogsRef), Absent, Illisible}}

RawAbsent == [transactions |-> Absent, clients |-> Absent, logs |-> Absent]

\* ETLPipeline.__init__, and nothing printed, returned or raised yet
InitObjet ==
    /\ data_sources = Vide
    /\ cleaned_data = Vide
    /\ stats_nettoyage = Vide
    /\ journal = Vide
    /\ alertes = {}
    /\ stats_chargement = NaN
    /\ erreur = ""
    /\ dernier_simulate = TRUE

\* a client of the class, on artifacts that exist already
InitClient ==
    /\ appelant = "client"
    /\ pc = "extraire"
    /\ raw \in FamilleLignes \cup FamilleCategories \cup FamilleScores
                \cup FamilleJointures \cup FamilleDates \cup FamilleCoordonnees
                \cup FamilleFichiers
    /\ processed = ProcessedVide
    /\ InitObjet
    /\ graine = 0
    /\ rng = [random |-> 0, faker |-> 0]
    /\ horloge = 0
    /\ runs = 1
    /\ nb_transactions = 0

\* the script, in an empty workspace
InitMain ==
    /\ appelant = "main"
    /\ pc = "generer"
    /\ raw = RawAbsent
    /\ processed = ProcessedVide
    /\ InitObjet
    /\ graine \in 0..MaxGraine
    /\ rng = [random |-> graine, faker |-> graine]
    /\ horloge = 0
    /\ runs = 1
    /\ nb_transactions \in 1..MaxN

Init == InitClient \/ InitMain

(* ------------------------------ actions ------------------------------- *)

\* generer_donnees_test(nb_transactions): writes the three raw artifacts
generer_donnees_test ==
    /\ appelant = "main"
    /\ pc = "generer"
    /\ LET g == generer(nb_transactions, rng.random, rng.faker, horloge)
       IN /\ raw' = Raw(g.transactions, g.clients, g.logs)
          /\ rng' = [random |-> g.r, faker |-> g.f]
    /\ pc' = Suite("generer", "")
    /\ erreur' = ""
    /\ UNCHANGED << appelant, processed, data_sources, cleaned_data, stats_nettoyage,
                    journal, alertes, stats_chargement, graine, horloge, runs,
                    nb_transactions, dernier_simulate >>

OrdreSources == << "transactions", "clients", "logs" >>

\* the exception reading one artifact raises ("" when it loads)
erreur_lecture(f) ==
    CASE f.etat = "absent" -> "FileNotFoundError"
      [] f.etat = "illisible" -> "ParserError"
      [] OTHER -> ""

\* the sources read before the first one that fails
sources_lues(fichiers) ==
    {OrdreSources[i] : i \in {k \in 1..Len(OrdreSources) :
        \A j \in 1..k : erreur_lecture(fichiers[OrdreSources[j]]) = ""}}

\* the first exception of a sequence of outcomes ("" when none)
premiere_erreur(excs) ==
    IF \A i \in 1..Len(excs) : excs[i] = "" THEN ""
    ELSE excs[CHOOSE i \in 1..Len(excs) :
                 excs[i] # "" /\ \A j \in 1..(i - 1) : excs[j] = ""]

\* dict assignment d[k] = val[k] for the keys of ks
Affecter(d, ks, val) ==
    [k \in DOMAIN d \cup ks |-> IF k \in ks THEN val[k] ELSE d[k]]

\* extraire_donnees: each artifact is read whole and stored, in order
extraire_donnees ==
    /\ Appelable("extraire")
    /\ LET exc == premiere_erreur([i \in 1..Len(OrdreSources) |->
                                      erreur_lecture(raw[OrdreSources[i]])])
       IN /\ data_sources' = Affecter(data_sources, sources_lues(raw),
                                      [k \in sources_lues(raw) |-> raw[k].lignes])
          /\ erreur' = exc
          /\ pc' = Suite("extraire", exc)
    /\ UNCHANGED << appelant, raw, processed, cleaned_data, stats_nettoyage, journal,
                    alertes, stats_chargement, rng, graine, horloge, runs,
                    nb_transactions, dernier_simulate >>

nettoyer_source(nom, df) ==
    CASE nom = "transactions" -> nettoyer_transactions(df)
      [] nom = "clients" -> nettoyer_clients(df)
      [] OTHER -> nettoyer_logs(df)

journal_source(nom, df) ==
    CASE nom = "transactions" -> journal_transactions(df)
      [] nom = "clients" -> journal_clients(df)
      [] OTHER -> journal_logs(df)

\* faulty variant of rapports_qualite: the report is built in a dict that outlives
\* the call, and the row count of a source adds up over the calls
rapports_qualite_cumul(k, ds) ==
    LET deja == IF k \in DOMAIN stats_nettoyage
                THEN stats_nettoyage[k].avant.nb_lignes ELSE 0
    IN [avant |-> [analyser_qualite_donnees(ds[k], k) EXCEPT !.nb_lignes = @ + deja],
        apres |-> analyser_qualite_donnees(nettoyer_source(k, ds[k]), k)]

\* the two reports of source k: stats_avant on the table as extracted, stats_apres on
\* the cleaned table
rapports_qualite(k, ds) ==
    [avant |-> analyser_qualite_donnees(ds[k], k),
     apres |-> analyser_qualite_donnees(nettoyer_source(k, ds[k]), k)]

\* the exception cleaning one source raises ("" when it completes)
erreur_nettoyage(nom, ds) ==
    IF nom \notin DOMAIN ds THEN "KeyError"
    ELSE CASE nom = "transactions" ->
                IF echec_transactions(ds[nom]) THEN "ValueError" ELSE ""
           [] nom = "clients" -> ""
           [] OTHER ->
                IF Len(ds[nom]) = 0 THEN "KeyError"
                ELSE IF echec_logs(ds[nom]) THEN "ValueError" ELSE ""

\* faulty variant of sources_nettoyees: the cleaned tables are published together at
\* the end of the call, so a failure publishes none
sources_nettoyees_a_la_fin(ds) ==
    IF \A i \in 1..Len(OrdreSources) : erreur_nettoyage(OrdreSources[i], ds) = ""
    THEN Range(OrdreSources) ELSE {}

\* the sources cleaned before the first one that fails
sources_nettoyees(ds) ==
    {OrdreSources[i] : i \in {k \in 1..Len(OrdreSources) :
        \A j \in 1..k : erreur_nettoyage(OrdreSources[j], ds) = ""}}

\* faulty variant of sources_apres_nettoyage: no .copy(), the in-place steps (fillna,
\* drop_duplicates, the assignment of the converted column) write the extracted tables
sources_sans_copie(ds) ==
    [k \in DOMAIN ds |->
        IF k \notin sources_nettoyees(ds) THEN ds[k]
        ELSE IF k = "transactions"
             THEN supprimer_doublons(
                      imputer_categorie(imputer_ville(imputer_coordonnees(ds[k]))))
             ELSE nettoyer_source(k, ds[k])]

\* self.data_sources after the call: each table is cleaned on a .copy() of it, so the
\* extracted tables are what they were
sources_apres_nettoyage(ds) == ds

\* nettoyer_donnees: transactions, then clients, then logs
nettoyer_donnees ==
    /\ Appelable("nettoyer")
    /\ LET exc == premiere_erreur([i \in 1..Len(OrdreSources) |->
                                      erreur_nettoyage(OrdreSources[i], data_sources)])
           faits == sources_nettoyees(data_sources)
       IN /\ cleaned_data' = Affecter(cleaned_data, faits,
                                      [k \in faits |->
                                          nettoyer_source(k, data_sources[k])])
          /\ stats_nettoyage' =
                Affecter(stats_nettoyage, faits \cap {"transactions", "clients"},
                         [k \in faits \cap {"transactions", "clients"} |->
                            rapports_qualite(k, data_sources)])
          /\ journal' = [k \in faits |-> journal_source(k, data_sources[k])]
          /\ data_sources' = sources_apres_nettoyage(data_sources)
          /\ erreur' = exc
          /\ pc' = Suite("nettoyer", exc)
    /\ UNCHANGED << appelant, raw, processed, alertes, stats_chargement,
                    rng, graine, horloge, runs,
                    nb_transactions, dernier_simulate >>

\* faulty variant of publier_dataset: the merged frame also replaces the cleaned
\* transaction table
publier_dataset_ecrase(cd, df_merged) ==
    Affecter(cd, {"dataset_final", "transactions"},
             [k \in {"dataset_final", "transactions"} |-> df_merged])

\* self.cleaned_data['dataset_final'] = df_merged
publier_dataset(cd, df_merged) ==
    Affecter(cd, {"dataset_final"}, [k \in {"dataset_final"} |-> df_merged])

\* agreger_donnees: the features of the logs, the two left joins, the zero fill
agreger_donnees ==
    /\ Appelable("agreger")
    /\ IF Sources \subseteq DOMAIN cleaned_data
       THEN /\ cleaned_data' =
                  publier_dataset(cleaned_data,
                                  agreger(cleaned_data["transactions"],
                                          cleaned_data["clients"],
                                          cleaned_data["logs"]))
            /\ erreur' = ""
       ELSE /\ cleaned_data' = cleaned_data
            /\ erreur' = "KeyError"
    /\ pc' = Suite("agreger", erreur')
    /\ UNCHANGED << appelant, raw, processed, data_sources, stats_nettoyage, journal,
                    alertes, stats_chargement, rng, graine, horloge, runs,
                    nb_transactions, dernier_simulate >>


\* the tables of cleaned_data, in the order the dict iterates
Tables(cd) == SelectSeq(OrdreTables, LAMBDA n : n \in DOMAIN cd)

\* len(df.columns)
nb_colonnes(nom) ==
    IF nom = "dataset_final"
    THEN Cardinality(ToutesColonnes("transactions") \cup ToutesColonnes("clients")
                     \cup {"nb_sessions", "duree_moy_session_sec"})
    ELSE Cardinality(ToutesColonnes(nom))

\* What the storage does to one call of charger_donnees: nothing unusual, the file of
\* one table loses its last row without an error (silent truncation), or the write of
\* one table raises.
Fautes(cd) ==
    {[type |-> "aucune", table |-> ""]}
    \cup {[type |-> "tronque", table |-> n] : n \in {m \in DOMAIN cd : Len(cd[m]) > 0}}
    \cup {[type |-> "panne", table |-> n] : n \in DOMAIN cd}

\* the tables whose file is written: all of them, or those before the write that raises
tables_ecrites(cd, faute) ==
    IF faute.type # "panne" THEN Range(Tables(cd))
    ELSE {Tables(cd)[i] : i \in {k \in 1..Len(Tables(cd)) :
             \A j \in 1..k : Tables(cd)[j] # faute.table}}

\* len(pd.read_csv(output_path))
nb_lignes_fichier(cd, faute, nom) ==
    IF faute.type = "tronque" /\ faute.table = nom THEN Len(cd[nom]) - 1 ELSE Len(cd[nom])

\* faulty variant of entree_chargement: 'lignes' takes the column count
entree_chargement_colonnes(cd, nom) ==
    [lignes |-> nb_colonnes(nom), colonnes |-> nb_colonnes(nom),
     fichier |-> nom, status |-> "OK"]

\* the entry of one table in the load report
entree_chargement(cd, nom) ==
    [lignes |-> Len(cd[nom]), colonnes |-> nb_colonnes(nom),
     fichier |-> nom, status |-> "OK"]

\* faulty variant of chargement_reel: the tables are written to data/processed as in
\* the simulation
chargement_reel_ecrit(p, cd) ==
    [processed |-> [p EXCEPT !.repertoire = @ \/ cd # Vide,
                             !.csv = Affecter(@, DOMAIN cd,
                                              [k \in DOMAIN cd |-> Len(cd[k])])],
     alertes |-> {},
     stats |-> Some([n \in DOMAIN cd |-> entree_chargement(cd, n)])]

\* the branch simulate=False: a message per table, nothing written, nothing read
\* back, no entry in the report
chargement_reel(p, cd) ==
    [processed |-> p, alertes |-> {}, stats |-> Some(Vide)]

\* charger_donnees(simulate): one file per table of cleaned_data, and the row count
\* read back from it
charger_donnees ==
    /\ Appelable("charger")
    /\ \E simulate \in BOOLEAN, faute \in Fautes(cleaned_data) :
          /\ appelant = "main" => simulate
          /\ (appelant = "main" /\ runs > 1) => faute.type = "aucune"
          /\ dernier_simulate' = simulate
          /\ IF ~simulate
             THEN /\ faute.type = "aucune"
                  /\ processed' = chargement_reel(processed, cleaned_data).processed
                  /\ alertes' = chargement_reel(processed, cleaned_data).alertes
                  /\ stats_chargement' = chargement_reel(processed, cleaned_data).stats
                  /\ erreur' = ""
             ELSE LET ecrites == tables_ecrites(cleaned_data, faute)
                  IN /\ processed' =
                           [processed EXCEPT
                              !.repertoire = @ \/ cleaned_data # Vide,
                              !.csv = Affecter(@, ecrites,
                                        [k \in ecrites |->
                                            nb_lignes_fichier(cleaned_data, faute, k)])]
                     /\ alertes' = {n \in ecrites :
                                      nb_lignes_fichier(cleaned_data, faute, n)
                                          # Len(cleaned_data[n])}
                     /\ IF faute.type = "panne"
                        THEN stats_chargement' = NaN /\ erreur' = "OSError"
                        ELSE /\ stats_chargement' =
                                   Some([n \in ecrites |->
                                            entree_chargement(cleaned_data, n)])
                             /\ erreur' = ""
    /\ pc' = Suite("charger", erreur')
    /\ UNCHANGED << appelant, raw, data_sources, cleaned_data, stats_nettoyage, journal,
                    rng, graine, horloge, runs,
                    nb_transactions >>

\* the document generer_rapport_etl dumps
rapport_etl ==
    [date_execution |-> horloge,
     etapes |-> << "Extract", "Transform", "Load" >>,
     sources_extraites |-> DOMAIN data_sources,
     stats_nettoyage |-> stats_nettoyage,
     donnees_finales |->
        [n \in DOMAIN cleaned_data |->
            [nb_lignes |-> Len(cleaned_data[n]), nb_colonnes |-> nb_colonnes(n)]]]

\* faulty variant of ecrire_rapport: the directory is created before the file is opened
ecrire_rapport_mkdir(p, doc) ==
    [processed |-> [p EXCEPT !.repertoire = TRUE, !.rapport = Some(doc)], erreur |-> ""]

\* open('data/processed/rapport_etl.json', 'w') and json.dump: open() needs the
\* directory data/processed
ecrire_rapport(p, doc) ==
    IF p.repertoire
    THEN [processed |-> [p EXCEPT !.rapport = Some(doc)], erreur |-> ""]
    ELSE [processed |-> p, erreur |-> "FileNotFoundError"]

\* generer_rapport_etl: the document is built, then written
generer_rapport_etl ==
    /\ Appelable("rapport")
    /\ processed' = ecrire_rapport(processed, rapport_etl).processed
    /\ erreur' = ecrire_rapport(processed, rapport_etl).erreur
    /\ pc' = Suite("rapport", erreur')
    /\ UNCHANGED << appelant, raw, data_sources, cleaned_data, stats_nettoyage, journal,
                    alertes, stats_chargement, rng, graine, horloge, runs,
                    nb_transactions, dernier_simulate >>

\* A new execution of the script: the module is imported again (both streams are
\* seeded), main builds a new ETLPipeline; the files of the previous execution stay.
main ==
    /\ appelant = "main"
    /\ pc \in {"fin", "abandon"}
    /\ runs < MaxRuns
    /\ runs' = runs + 1
    /\ horloge' \in horloge..(horloge + MaxHorloge)
    /\ rng' = [random |-> graine, faker |-> graine]
    /\ data_sources' = Vide
    /\ cleaned_data' = Vide
    /\ stats_nettoyage' = Vide
    /\ journal' = Vide
    /\ alertes' = {}
    /\ stats_chargement' = NaN
    /\ erreur' = ""
    /\ pc' = "generer"
    /\ UNCHANGED << appelant, raw, processed, graine, nb_transactions, dernier_simulate >>

\* The files of data/raw belong to the file system, not to the program: between the
\* generator's writes and the reads of extraire_donnees another process may remove an
\* artifact or overwrite it with bytes that are no table. The script meets such a
\* fault, like the storage faults of charger_donnees, in its first execution, and in
\* one artifact (the artifacts a client finds cover several at once); its later
\* executions run on what the first one left.
perte_artefact ==
    /\ appelant = "main"
    /\ pc = "extraire"
    /\ runs = 1
    /\ \E s \in Sources, f \in {Absent, Illisible} :
          /\ \A t \in Sources : raw[t].etat = "ok"
          /\ raw' = [raw EXCEPT ![s] = f]
    /\ UNCHANGED << appelant, pc, processed, data_sources, cleaned_data, stats_nettoyage,
                    journal, alertes, stats_chargement, erreur, rng, graine, horloge,
                    runs, nb_transactions, dernier_simulate >>

Next ==
    \/ generer_donnees_test
    \/ perte_artefact
    \/ extraire_donnees
    \/ nettoyer_donnees
    \/ agreger_donnees
    \/ charger_donnees
    \/ generer_rapport_etl
    \/ main

Spec == Init /\ [][Next]_vars

(* ------------------------------- claims ------------------------------- *)

Cleaned(nom) == nom \in DOMAIN cleaned_data

\* no two rows of df carry the same client_id
ClientIdUniques(df) ==
    \A i, j \in 1..Len(df) : df[i].client_id = df[j].client_id => i = j

\* C1: when every client identifier occurs at most once in the cleaned client table,
\* the dataset agreger_donnees stores has exactly as many rows as the cleaned
\* transaction table.
C1_JoinRowCount ==
    (Cleaned("dataset_final") /\ ClientIdUniques(cleaned_data["clients"]))
        => Len(cleaned_data["dataset_final"]) = Len(cleaned_data["transactions"])

\* C1 witness: two transactions aggregated against unique clients, one of a client
\* with a record and one of a client without.
C1_Witness ==
    /\ Cleaned("dataset_final")
    /\ ClientIdUniques(cleaned_data["clients"])
    /\ Len(cleaned_data["transactions"]) = 2
    /\ \E i, j \in 1..2 :
          /\ \E k \in 1..Len(cleaned_data["clients"]) :
                cleaned_data["clients"][k].client_id
                    = cleaned_data["transactions"][i].client_id
          /\ \A k \in 1..Len(cleaned_data["clients"]) :
                cleaned_data["clients"][k].client_id
                    # cleaned_data["transactions"][j].client_id

\* C2: a table whose file re-reads with another row count than the table in memory
\* has an entry in the returned load report whose status is not OK, and every table
\* of cleaned_data is still loaded.
C2_MismatchReported ==
    \A n \in alertes :
        /\ stats_chargement # NaN
        /\ DOMAIN Val(stats_chargement) = DOMAIN cleaned_data
        /\ Val(stats_chargement)[n].status # "OK"

\* the cells of a column of df that are missing
Manquantes(df, col) == {i \in 1..Len(df) : isna(df[i][col])}

\* C3: after nettoyer_donnees the columns latitude, longitude, ville and
\* merchant_category of the cleaned transactions and the column score_credit of the
\* cleaned clients hold no missing value, whatever the extracted tables.
C3_NoMissingAfterClean ==
    /\ Cleaned("transactions") =>
          \A col \in {"latitude", "longitude", "ville", "merchant_category"} :
              Manquantes(cleaned_data["transactions"], col) = {}
    /\ Cleaned("clients") => Manquantes(cleaned_data["clients"], "score_credit") = {}

\* C4: every row of the cleaned transaction table has an amount, and it is >= 0.
C4_NoNegativeAmounts ==
    Cleaned("transactions") =>
        \A i \in 1..Len(cleaned_data["transactions"]) :
            /\ ~isna(cleaned_data["transactions"][i].montant)
            /\ Val(cleaned_data["transactions"][i].montant) >= 0

\* C4 witness: the extracted table held a negative or missing amount, the cleaner
\* removed that row and kept another.
C4_Witness ==
    /\ Cleaned("transactions")
    /\ Len(cleaned_data["transactions"]) >= 1
    /\ \E i \in 1..Len(data_sources["transactions"]) :
          LET m == data_sources["transactions"][i].montant
          IN isna(m) \/ Val(m) < 0

\* the cells missing in avant and present in apres (tables of equal length)
NbImputees(avant, apres, cols) ==
    Cardinality({<< i, c >> \in (1..Len(avant)) \X cols :
                    isna(avant[i][c]) /\ ~isna(apres[i][c])})

\* C5: cleaning the cleaned tables again changes nothing: each table comes out equal,
\* no cell is imputed and no row is dropped in the second pass.
C5_CleaningIdempotent ==
    /\ Cleaned("transactions") =>
          LET t == cleaned_data["transactions"]
          IN /\ ~echec_transactions(t)
             /\ nettoyer_transactions(t) = t
             /\ Len(nettoyer_transactions(t)) = Len(t)
             /\ NbImputees(t, imputer_categorie(imputer_ville(imputer_coordonnees(t))),
                           {"latitude", "longitude", "ville", "merchant_category"}) = 0
    /\ Cleaned("clients") =>
          LET c == cleaned_data["clients"]
          IN /\ nettoyer_clients(c) = c
             /\ NbImputees(c, nettoyer_clients(c), {"score_credit"}) = 0
    /\ Cleaned("logs") =>
          LET l == cleaned_data["logs"]
          IN ~echec_logs(l) /\ nettoyer_logs(l) = l

\* C5 witness: a first pass that imputed cells, dropped rows and converted dates.
C5_Witness ==
    /\ Cleaned("transactions") /\ Cleaned("clients") /\ Cleaned("logs")
    /\ Len(cleaned_data["transactions"]) >= 1
    /\ Len(cleaned_data["transactions"]) < Len(data_sources["transactions"])
    /\ \E i \in 1..Len(data_sources["transactions"]) :
          isna(data_sources["transactions"][i].latitude)
    /\ Manquantes(cleaned_data["transactions"], "latitude") = {}


\* rows of df whose transaction_id occurs more than once (K), and the identifiers
\* that occur more than once (D)
LignesDupliquees(df) ==
    {i \in 1..Len(df) :
        \E j \in 1..Len(df) : j # i /\ df[j].transaction_id = df[i].transaction_id}

IdsDupliques(df) == {df[i].transaction_id : i \in LignesDupliquees(df)}

\* rows carrying the same transaction_id are equal in every field
DoublonsIdentiques(df) ==
    \A i, j \in 1..Len(df) :
        df[i].transaction_id = df[j].transaction_id => df[i] = df[j]

NbLignesId(df, id) == Cardinality({i \in 1..Len(df) : df[i].transaction_id = id})

\* the first row of df carrying each identifier
PremiereOccurrence(df, i) ==
    \A j \in 1..(i - 1) : df[j].transaction_id # df[i].transaction_id

MontantValide(r) == ~isna(r.montant) /\ Val(r.montant) >= 0

\* the number of duplicate rows nettoyer_donnees reports, which is K - D
DoublonsComptes(src) ==
    /\ "transactions" \in DOMAIN journal
    /\ journal["transactions"].doublons_supprimes
          = Cardinality(LignesDupliquees(src)) - Cardinality(IdsDupliques(src))

\* C6 as stated: with duplicates that are identical rows, the cleaned table holds
\* exactly one row per transaction identifier of the extracted table, K - D rows
\* were removed as duplicates, and no identifier occurs twice.
C6_OneRowPerIdentifier ==
    (Cleaned("transactions") /\ "transactions" \in DOMAIN journal
        /\ DoublonsIdentiques(data_sources["transactions"])) =>
        LET src == data_sources["transactions"]
            cl == cleaned_data["transactions"]
        IN /\ \A i \in 1..Len(src) : NbLignesId(cl, src[i].transaction_id) = 1
           /\ DoublonsComptes(src)

\* C6 amended: with duplicates that are identical rows, the cleaned table holds
\* exactly one row (the cleaned first occurrence) per transaction identifier whose
\* first occurrence has an amount >= 0, in the order of the first occurrences, and no
\* row for the other identifiers; K - D rows were removed as duplicates; no identifier
\* occurs twice.
C6_OneRowPerValidIdentifier ==
    (Cleaned("transactions") /\ "transactions" \in DOMAIN journal
        /\ DoublonsIdentiques(data_sources["transactions"])) =>
        LET src == data_sources["transactions"]
            cl == cleaned_data["transactions"]
            imp == convertir_date_heure(
                       imputer_categorie(imputer_ville(imputer_coordonnees(src))))
        IN /\ \A i \in 1..Len(src) :
                 NbLignesId(cl, src[i].transaction_id)
                    = IF \E j \in 1..Len(src) :
                            /\ src[j].transaction_id = src[i].transaction_id
                            /\ PremiereOccurrence(src, j)
                            /\ MontantValide(src[j])
                      THEN 1 ELSE 0
           /\ cl = FilterIdx(imp, {i \in 1..Len(src) :
                                      PremiereOccurrence(src, i) /\ MontantValide(src[i])})
           /\ DoublonsComptes(src)
           /\ \A i, j \in 1..Len(cl) :
                 cl[i].transaction_id = cl[j].transaction_id => i = j

\* C6 witness: two identical rows under one identifier, of which one is kept.
C6_Witness ==
    /\ Cleaned("transactions") /\ "transactions" \in DOMAIN journal
    /\ DoublonsIdentiques(data_sources["transactions"])
    /\ Cardinality(LignesDupliquees(data_sources["transactions"])) = 2
    /\ Len(cleaned_data["transactions"]) = 1
    /\ journal["transactions"].doublons_supprimes = 1

\* C7: in a run of the script, the unified dataset has as many rows as the generator
\* was asked for (N >= 1): the generated transactions have pairwise distinct
\* identifiers and amounts >= 0, the generated clients distinct identifiers, the
\* cleaner drops no row and the joins add none.
C7_EndToEndRowCount ==
    (appelant = "main" /\ Cleaned("dataset_final")) =>
        LET gen == raw.transactions.lignes
        IN /\ Len(gen) >= 1
           /\ Len(raw.logs.lignes) = 5 * Len(gen)
           /\ \A i, j \in 1..Len(gen) :
                 gen[i].transaction_id = gen[j].transaction_id => i = j
           /\ \A i \in 1..Len(gen) : MontantValide(gen[i])
           /\ ClientIdUniques(raw.clients.lignes)
           /\ Len(cleaned_data["transactions"]) = Len(gen)
           /\ Len(cleaned_data["dataset_final"]) = Len(gen)

\* C7 witness: a run of the script that aggregated two generated transactions.
C7_Witness ==
    /\ appelant = "main"
    /\ Cleaned("dataset_final")
    /\ Len(raw.transactions.lignes) = 2
    /\ Len(cleaned_data["dataset_final"]) = 2

\* C8: after extract, clean, aggregate and a simulated load that returned, the load
\* report holds exactly the four tables, each with status OK and with 'lignes' equal
\* to the row count of the table in memory.  (Only a simulated load of a non-empty
\* cleaned_data returns a report with entries.)
C8_LoadReportFourTables ==
    (Cleaned("dataset_final") /\ stats_chargement # NaN
        /\ stats_chargement # Some(Vide)) =>
        LET report == Val(stats_chargement)
        IN /\ DOMAIN report = {"transactions", "clients", "logs", "dataset_final"}
           /\ \A n \in DOMAIN report :
                 /\ report[n].status = "OK"
                 /\ report[n].lignes = Len(cleaned_data[n])

\* C8 witness: the script loaded its four tables, the unified one holding rows.
C8_Witness ==
    /\ appelant = "main"
    /\ Cleaned("dataset_final")
    /\ stats_chargement # NaN
    /\ stats_chargement # Some(Vide)
    /\ Len(cleaned_data["dataset_final"]) >= 2
    /\ alertes = {}

\* C9: whenever the generator has run, for N transactions, its three artifacts are
\* those of the first invocation of the behaviour for that N (made with the streams
\* as seeded, on day 0): the artifacts depend on the seed and on N alone.
C9_GeneratorDeterministic ==
    (appelant = "main" /\ \A s \in Sources : raw[s].etat = "ok") =>
        LET g == generer(Len(raw.transactions.lignes), graine, graine, 0)
        IN raw = Raw(g.transactions, g.clients, g.logs)

\* C10: agreger_donnees never stores a dataset with more rows than the cleaned
\* transaction table, and when a client identifier is duplicated in the cleaned
\* client table the call reports it.
C10_NoSilentFanOut ==
    /\ Cleaned("dataset_final") =>
          Len(cleaned_data["dataset_final"]) <= Len(cleaned_data["transactions"])
    /\ (pc = "charger" /\ Cleaned("clients")
          /\ ~ClientIdUniques(cleaned_data["clients"])) => erreur # ""


(* ------------------------------- C11 ---------------------------------- *)

\* C11: when the write of one table raises in charger_donnees, the failure is caught:
\* the call still returns a load report, and every other table of cleaned_data
\* has been written.
C11_LoadFailureIsolated ==
    (pc \in {"rapport", "abandon"} /\ erreur = "OSError") =>
        /\ stats_chargement # NaN
        /\ Cardinality(DOMAIN cleaned_data \ DOMAIN processed.csv) <= 1

(* ------------------------------- C12 ---------------------------------- *)

\* some raw artifact is absent or cannot be parsed
ArtefactDefaillant == \E s \in Sources : raw[s].etat # "ok"

\* the exceptions a read of extraire_donnees raises
ErreursLecture == {"FileNotFoundError", "ParserError"}

\* C12: right after extraire_donnees ran on artifacts of which one is absent or
\* unparsable, the call has raised; and an execution of main that is past its
\* extraction with such an artifact has stopped there: nothing is cleaned, aggregated,
\* loaded or reported by it, and its only next step is a new execution.
C12_ExtractionFailureAborts ==
    /\ [](((pc = "nettoyer" \/ (appelant = "main" /\ pc \notin {"generer", "extraire"}))
             /\ ArtefactDefaillant)
           => erreur \in ErreursLecture)
    /\ []((appelant = "main" /\ pc \notin {"generer", "extraire"} /\ ArtefactDefaillant)
           => /\ pc = "abandon"
              /\ cleaned_data = Vide
              /\ stats_nettoyage = Vide
              /\ stats_chargement = NaN)
    /\ [][(appelant = "main" /\ pc = "abandon")
             => (pc' = "generer" /\ UNCHANGED << raw, processed >>)]_vars

\* C12 witness: an execution of main stopped by an extraction that failed after it
\* had read the transactions.
C12_Witness ==
    /\ appelant = "main"
    /\ pc = "abandon"
    /\ erreur \in ErreursLecture
    /\ raw.transactions.etat = "ok"
    /\ DOMAIN data_sources = {"transactions"}


(* ------------------------------- C13 ---------------------------------- *)

\* the session durations of the cleaned events of client c, in row order
DureesClient(c) ==
    Column(SelectSeq(cleaned_data["logs"], LAMBDA e : e.client_id = c),
           "duree_session_sec")

\* C13: in every row of the unified dataset nb_sessions and duree_moy_session_sec are
\* present; nb_sessions is the number of cleaned events of the row's client, and
\* duree_moy_session_sec is 0 when there is none, else the mean of their durations.
C13_FeaturesNeverMissing ==
    Cleaned("dataset_final") =>
        \A i \in 1..Len(cleaned_data["dataset_final"]) :
            LET r == cleaned_data["dataset_final"][i]
                d == DureesClient(r.client_id)
            IN /\ ~isna(r.nb_sessions)
               /\ ~isna(r.duree_moy_session_sec)
               /\ Val(r.nb_sessions) = Len(d)
               /\ Val(r.duree_moy_session_sec).den > 0
               /\ IF Len(d) = 0 THEN Val(r.duree_moy_session_sec).num = 0
                  ELSE Val(r.duree_moy_session_sec).num * Len(d)
                          = Val(r.duree_moy_session_sec).den * Sum(d)

\* C13 witness: a dataset with a row whose client has no event, and a row whose
\* client has two events of different durations.
C13_Witness ==
    /\ Cleaned("dataset_final")
    /\ \E i, j \in 1..Len(cleaned_data["dataset_final"]) :
          LET di == DureesClient(cleaned_data["dataset_final"][i].client_id)
              dj == DureesClient(cleaned_data["dataset_final"][j].client_id)
          IN /\ Len(di) = 0
             /\ cleaned_data["dataset_final"][i].nb_sessions = Some(0)
             /\ Len(dj) = 2
             /\ dj[1] # dj[2]
             /\ cleaned_data["dataset_final"][j].nb_sessions = Some(2)


(* ------------------------------- C14 ---------------------------------- *)

\* C14: the cleaned client table has the rows of the extracted one, in the same
\* order; a row differs from its source in score_credit at most, and only where the
\* source has none; a missing date_derniere_fraude stays missing.
C14_ClientCleaningFrame ==
    Cleaned("clients") =>
        LET src == data_sources["clients"]
            cl == cleaned_data["clients"]
        IN /\ Len(cl) = Len(src)
           /\ \A i \in 1..Len(src) :
                 /\ [cl[i] EXCEPT !.score_credit = src[i].score_credit] = src[i]
                 /\ ~isna(src[i].score_credit) => cl[i].score_credit = src[i].score_credit
                 /\ isna(src[i].date_derniere_fraude) => isna(cl[i].date_derniere_fraude)

\* C14 witness: a client whose missing score was imputed and whose missing fraud date
\* was left alone, next to a client that had a score.
C14_Witness ==
    /\ Cleaned("clients")
    /\ \E i, j \in 1..Len(data_sources["clients"]) :
          /\ isna(data_sources["clients"][i].score_credit)
          /\ isna(data_sources["clients"][i].date_derniere_fraude)
          /\ ~isna(cleaned_data["clients"][i].score_credit)
          /\ isna(cleaned_data["clients"][i].date_derniere_fraude)
          /\ ~isna(data_sources["clients"][j].score_credit)


(* ------------------------------- C15 ---------------------------------- *)

\* C15: once nettoyer_donnees has cleaned the three sources, stats_nettoyage (the
\* cleaning statistics the run report embeds) holds a report taken before and a
\* report taken after cleaning for each of transactions, clients and logs.
C15_StatsForThreeSources ==
    (Sources \subseteq DOMAIN cleaned_data) =>
        \A s \in Sources :
            /\ s \in DOMAIN stats_nettoyage
            /\ DOMAIN stats_nettoyage[s] = {"avant", "apres"}

(* ------------------------------- C16 ---------------------------------- *)

\* the number of cells of col that hold v
Frequence(col, v) == Cardinality({i \in 1..Len(col) : col[i] = Some(v)})

\* the most frequent present value of col, the first in row order among the most
\* frequent ones (col has a present value)
PlusFrequentPremier(col) ==
    LET plus == {i \in 1..Len(col) :
                    /\ ~isna(col[i])
                    /\ \A j \in 1..Len(col) :
                          ~isna(col[j]) =>
                              Frequence(col, Val(col[j])) <= Frequence(col, Val(col[i]))}
    IN Val(col[CHOOSE i \in plus : \A j \in plus : i <= j])

\* C16: a missing merchant_category of a kept row is filled with the most frequent
\* present value of the extracted column, and among several most frequent values
\* with the one met first in row order.
C16_ModeFirstEncountered ==
    Cleaned("transactions") =>
        LET src == data_sources["transactions"]
            cl == cleaned_data["transactions"]
            col == Column(src, "merchant_category")
        IN \A i \in 1..Len(src), k \in 1..Len(cl) :
              (/\ PremiereOccurrence(src, i)
               /\ cl[k].transaction_id = src[i].transaction_id
               /\ isna(src[i].merchant_category)
               /\ Manquantes(src, "merchant_category") # 1..Len(src))
                  => cl[k].merchant_category = Some(PlusFrequentPremier(col))

(* ------------------------------- C17 ---------------------------------- *)

\* C17: every kept row that had no latitude (resp. longitude) carries the median of
\* the present values of the extracted column, the values of the rows that the same
\* pass removes included; a row that had one keeps it.
C17_ImputationBeforeFiltering ==
    Cleaned("transactions") =>
        LET src == data_sources["transactions"]
            cl == cleaned_data["transactions"]
        IN \A i \in 1..Len(src), k \in 1..Len(cl) :
              (PremiereOccurrence(src, i) /\ cl[k].transaction_id = src[i].transaction_id)
                  => /\ cl[k].latitude =
                          IF isna(src[i].latitude)
                          THEN median(Column(src, "latitude")) ELSE src[i].latitude
                     /\ cl[k].longitude =
                          IF isna(src[i].longitude)
                          THEN median(Column(src, "longitude")) ELSE src[i].longitude

\* C17 witness: a kept row whose missing latitude was filled, while the only present
\* latitudes of the extracted column are in rows that the pass removed.
C17_Witness ==
    /\ Cleaned("transactions")
    /\ LET src == data_sources["transactions"]
           cl == cleaned_data["transactions"]
       IN /\ \E i \in 1..Len(src), k \in 1..Len(cl) :
                /\ PremiereOccurrence(src, i)
                /\ cl[k].transaction_id = src[i].transaction_id
                /\ isna(src[i].latitude)
                /\ ~isna(cl[k].latitude)
          /\ \A j \in 1..Len(src) :
                ~isna(src[j].latitude) =>
                    ~(PremiereOccurrence(src, j) /\ MontantValide(src[j]))

(* ------------------------------- C18 ---------------------------------- *)

\* C18: the rows the cleaner removes from the transactions are the rows it reports:
\* rows before - rows after = duplicates reported + negative amounts reported.
C18_DropsAccounted ==
    (Cleaned("transactions") /\ "transactions" \in DOMAIN journal) =>
        Len(data_sources["transactions"]) - Len(cleaned_data["transactions"])
            = journal["transactions"].doublons_supprimes
                + journal["transactions"].negatifs_supprimes


(* ------------------------------- C19 ---------------------------------- *)

\* the rows of df with a latitude outside [-90, 90] or a longitude outside
\* [-180, 180] (coordinates in half-degrees; a missing coordinate is not out of range)
CoordonneesHorsBornes(df) ==
    {i \in 1..Len(df) :
        \/ ~isna(df[i].latitude)
             /\ (Val(df[i].latitude) < -(2 * 90) \/ Val(df[i].latitude) > 2 * 90)
        \/ ~isna(df[i].longitude)
             /\ (Val(df[i].longitude) < -(2 * 180) \/ Val(df[i].longitude) > 2 * 180)}

\* C19: the quality report of the extracted transactions gives as
\* coordonnees_invalides the number of rows whose latitude or longitude is out of
\* range.
C19_InvalidCoordinates ==
    ("transactions" \in DOMAIN stats_nettoyage) =>
        stats_nettoyage["transactions"].avant.anomalies.coordonnees_invalides
            = Cardinality(CoordonneesHorsBornes(data_sources["transactions"]))

(* ------------------------------- C20 ---------------------------------- *)

\* rep is the exact report of table df of source nom: row and field counts, and an
\* entry with the missing count and its percentage (to the hundredth) for exactly
\* the fields that have a missing value
RapportExact(rep, df, nom) ==
    /\ rep.nb_lignes = Len(df)
    /\ Len(df) > 0 => rep.nb_colonnes = Cardinality(DOMAIN df[1])
    /\ DOMAIN rep.valeurs_manquantes = {c \in Colonnes(nom) : Manquantes(df, c) # {}}
    /\ \A c \in DOMAIN rep.valeurs_manquantes :
          LET n == Cardinality(Manquantes(df, c))
              ecart == rep.valeurs_manquantes[c].pct * Len(df) - n * 10000
          IN /\ rep.valeurs_manquantes[c].count = n
             /\ n >= 1
             /\ 2 * ecart <= Len(df)
             /\ -(2 * ecart) <= Len(df)

\* C20: the reports stored by nettoyer_donnees, taken before cleaning on the
\* extracted table and after cleaning on the cleaned one, are exact.
C20_QualityReportExact ==
    \A s \in DOMAIN stats_nettoyage :
        /\ RapportExact(stats_nettoyage[s].avant, data_sources[s], s)
        /\ RapportExact(stats_nettoyage[s].apres, cleaned_data[s], s)

\* C20 witness: a report of three transactions of which one lacks its coordinates and
\* none lacks its amount: an entry of 1 cell (33.33 %) for latitude, none for montant.
C20_Witness ==
    /\ "transactions" \in DOMAIN stats_nettoyage
    /\ LET rep == stats_nettoyage["transactions"].avant
       IN /\ rep.nb_lignes = 3
          /\ "latitude" \in DOMAIN rep.valeurs_manquantes
          /\ rep.valeurs_manquantes["latitude"].count = 1
          /\ rep.valeurs_manquantes["latitude"].pct = 3333
          /\ "montant" \notin DOMAIN rep.valeurs_manquantes


(* ------------------------------- C21 ---------------------------------- *)

ScoreValide(c) == ~isna(c) /\ Val(c) % 2 = 0 /\ Val(c) >= 2 * 300 /\ Val(c) <= 2 * 850

\* C22: when every present score_credit of the extracted clients is an integer of
\* 300..850 and one at least is present, every score_credit of the cleaned clients,
\* the imputed ones included, is an integer of 300..850.
C22_ScoreIntegerInRange ==
    (/\ Cleaned("clients")
     /\ \E i \in 1..Len(data_sources["clients"]) :
           ~isna(data_sources["clients"][i].score_credit)
     /\ \A i \in 1..Len(data_sources["clients"]) :
           isna(data_sources["clients"][i].score_credit)
              \/ ScoreValide(data_sources["clients"][i].score_credit))
        => \A i \in 1..Len(cleaned_data["clients"]) :
              ScoreValide(cleaned_data["clients"][i].score_credit)


(* ------------------------------- C23 ---------------------------------- *)

\* the three artifacts as the generator wrote them
ArtefactsGeneres == appelant = "main" /\ \A s \in Sources : raw[s].etat = "ok"

\* C23: the generated clients hold exactly one record per client identifier of the
\* generated transactions and none for another identifier, and every generated log
\* refers to one of these identifiers.
C23_GeneratedClientsMatch ==
    ArtefactsGeneres =>
        LET t == raw["transactions"].lignes
            c == raw["clients"].lignes
            l == raw["logs"].lignes
            ids == {t[i].client_id : i \in 1..Len(t)}
        IN /\ \A id \in ids : Cardinality({i \in 1..Len(c) : c[i].client_id = id}) = 1
           /\ \A i \in 1..Len(c) : c[i].client_id \in ids
           /\ \A i \in 1..Len(l) : l[i].client_id \in ids

\* two generated transactions of one client, while another identifier has none
C23_Witness ==
    /\ ArtefactsGeneres
    /\ LET t == raw["transactions"].lignes
       IN /\ Len(t) >= 2
          /\ t[1].client_id = t[2].client_id
          /\ Len(raw["clients"].lignes) = 1
          /\ Len(raw["logs"].lignes) = 5 * Len(t)


(* ------------------------------- C24 ---------------------------------- *)

\* the extracted logs with their timestamp in the canonical temporal type
LogsConvertis ==
    [i \in 1..Len(data_sources["logs"]) |->
        [data_sources["logs"][i] EXCEPT !.timestamp = Datetime(@.val)]]

\* C24: cleaning the logs removes a row only if an earlier row equals it in every
\* field (the timestamp compared as the instant it denotes): no two cleaned rows are
\* equal in all fields, rows that differ in a field are both kept, and the kept rows
\* stay in their original order.
C24_LogsExactDuplicatesOnly ==
    Cleaned("logs") =>
        LET conv == LogsConvertis
            cl == cleaned_data["logs"]
            gardees == {i \in 1..Len(conv) : \A j \in 1..(i - 1) : conv[j] # conv[i]}
        IN /\ \A i, j \in 1..Len(cl) : i # j => cl[i] # cl[j]
           /\ \A i \in 1..Len(conv) : \E j \in 1..Len(cl) : cl[j] = conv[i]
           /\ cl = FilterIdx(conv, gardees)

\* two logs of one session at different instants are both kept
C24_Witness ==
    /\ Cleaned("logs")
    /\ Len(data_sources["logs"]) = 2
    /\ data_sources["logs"][1].session_id = data_sources["logs"][2].session_id
    /\ data_sources["logs"][1].timestamp.val # data_sources["logs"][2].timestamp.val
    /\ Len(cleaned_data["logs"]) = 2


(* ------------------------------- C25 ---------------------------------- *)

\* C25: nettoyer_donnees never modifies the extracted tables of data_sources, and a
\* call that follows an earlier call of it, successful or failed, yields the cleaned
\* tables and the outcome of the earlier call.
C25_CleaningKeepsSources ==
    [][nettoyer_donnees =>
          /\ data_sources' = data_sources
          /\ \A k \in Sources \cap DOMAIN data_sources :
                k \in DOMAIN cleaned_data'
                   => cleaned_data'[k] = nettoyer_source(k, data_sources[k])
          /\ (appelant = "client" /\ pc = "agreger")
                => cleaned_data' = cleaned_data /\ erreur' = erreur]_vars

\* after a call that removed a transaction row the extracted table still has it
C25_Witness ==
    /\ appelant = "client"
    /\ pc = "agreger"
    /\ erreur = ""
    /\ Cleaned("transactions")
    /\ Len(cleaned_data["transactions"]) < Len(data_sources["transactions"])


(* ------------------------------- C26 ---------------------------------- *)

\* the client columns of the unified dataset for transaction row r: those of the
\* client record with r's client_id, or missing
ChampsClient(r, df_clients) ==
    IF \E k \in 1..Len(df_clients) : df_clients[k].client_id = r.client_id
    THEN LET c == df_clients[CHOOSE k \in 1..Len(df_clients) :
                                 df_clients[k].client_id = r.client_id]
         IN [age |-> Some(c.age), score_credit |-> c.score_credit,
             date_derniere_fraude |-> c.date_derniere_fraude]
    ELSE [age |-> NaN, score_credit |-> NaN, date_derniere_fraude |-> NaN]

\* C26: with unique client identifiers in the cleaned clients, row i of the unified
\* dataset has the transaction fields of cleaned transaction i, same order and same
\* values, and the client fields of the client record of its client_id, missing
\* when there is no such record.
C26_JoinRowsAligned ==
    (Cleaned("dataset_final") /\ ClientIdUniques(cleaned_data["clients"]))
        => LET df == cleaned_data["dataset_final"]
               t == cleaned_data["transactions"]
           IN /\ Len(df) = Len(t)
              /\ \A i \in 1..Len(df) :
                    /\ \A c \in DOMAIN t[i] : df[i][c] = t[i][c]
                    /\ \A c \in {"age", "score_credit", "date_derniere_fraude"} :
                          df[i][c] = ChampsClient(t[i], cleaned_data["clients"])[c]

\* two transactions of two clients whose records differ, joined in transaction order
C26_Witness ==
    /\ Cleaned("dataset_final")
    /\ ClientIdUniques(cleaned_data["clients"])
    /\ Len(cleaned_data["dataset_final"]) = 2
    /\ cleaned_data["dataset_final"][1].client_id
          # cleaned_data["dataset_final"][2].client_id
    /\ ~isna(cleaned_data["dataset_final"][1].age)
    /\ ~isna(cleaned_data["dataset_final"][2].age)
    /\ cleaned_data["dataset_final"][1].age # cleaned_data["dataset_final"][2].age


(* ------------------------------- C27 ---------------------------------- *)

\* C27: generer_rapport_etl succeeds only when the directory data/processed exists,
\* and only a charger_donnees that writes creates it: without the directory (load
\* skipped, or called with simulate=False) report generation raises and writes no
\* report.
C27_ReportNeedsDirectory ==
    [][/\ processed'.rapport # NaN => processed'.repertoire
       /\ processed'.rapport # processed.rapport => processed.repertoire
       /\ (generer_rapport_etl /\ ~processed.repertoire)
             => /\ erreur' = "FileNotFoundError"
                /\ processed' = processed
       /\ (~processed.repertoire /\ processed'.repertoire)
             => /\ charger_donnees
                /\ dernier_simulate']_vars

\* a client that loaded with simulate=False and then asked for the report
C27_Witness ==
    /\ appelant = "client"
    /\ pc = "fin"
    /\ Cleaned("dataset_final")
    /\ ~dernier_simulate
    /\ stats_chargement = Some(Vide)
    /\ ~processed.repertoire
    /\ processed.rapport = NaN
    /\ erreur = "FileNotFoundError"


(* ------------------------------- C28 ---------------------------------- *)

\* C28: charger_donnees(simulate=False) persists nothing and returns an empty load
\* report whatever cleaned_data holds: no table gets an entry, no file is written and
\* no integrity check is made.
C28_RealLoadPersistsNothing ==
    [][(charger_donnees /\ ~dernier_simulate')
          => /\ processed' = processed
             /\ stats_chargement' = Some(Vide)
             /\ alertes' = {}
             /\ erreur' = ""]_vars

\* a client that loaded its four tables with simulate=False
C28_Witness ==
    /\ appelant = "client"
    /\ pc = "rapport"
    /\ ~dernier_simulate
    /\ DOMAIN cleaned_data = Sources \cup {"dataset_final"}
    /\ \A n \in DOMAIN cleaned_data : Len(cleaned_data[n]) > 0
    /\ stats_chargement = Some(Vide)
    /\ processed = ProcessedVide


(* ------------------------------- C29 ---------------------------------- *)

\* every date cell of the table has the canonical temporal type
DatesConverties(df, col) == \A i \in 1..Len(df) : df[i][col].typ = "datetime"

\* C29: nettoyer_donnees publishes the cleaned table of a source once its cleaning has
\* completed, in the order transactions, clients, logs; when the cleaning of a source
\* fails, cleaned_data holds the tables of the sources before it and none for it or
\* a later one.
C29_PartialCleaningVisible ==
    [][nettoyer_donnees =>
          LET echoue(k) == erreur_nettoyage(k, data_sources) # ""
          IN /\ \A i \in 1..Len(OrdreSources) :
                   OrdreSources[i] \in DOMAIN cleaned_data'
                      <=> \A j \in 1..i : ~echoue(OrdreSources[j])
             /\ erreur' # "" <=> \E k \in Sources : echoue(k)
             /\ "transactions" \in DOMAIN cleaned_data'
                   => DatesConverties(cleaned_data'["transactions"], "date_heure")
             /\ "logs" \in DOMAIN cleaned_data'
                   => DatesConverties(cleaned_data'["logs"], "timestamp")]_vars

\* the cleaning failed at the logs, and a later charger_donnees wrote the two tables
\* cleaned before them
C29_Witness ==
    /\ appelant = "client"
    /\ pc = "rapport"
    /\ erreur = ""
    /\ DOMAIN data_sources = Sources
    /\ DOMAIN cleaned_data = {"transactions", "clients"}
    /\ DOMAIN processed.csv = {"transactions", "clients"}


(* ------------------------------- C30 ---------------------------------- *)

\* C30: agreger_donnees leaves data_sources, stats_nettoyage and the cleaned
\* transactions, clients and logs unchanged; it only sets
\* cleaned_data['dataset_final'], and a second call in a row leaves cleaned_data as
\* the first call left it.
C30_AggregationFrame ==
    [][agreger_donnees =>
          /\ data_sources' = data_sources
          /\ stats_nettoyage' = stats_nettoyage
          /\ DOMAIN cleaned_data' \ {"dataset_final"} = DOMAIN cleaned_data \ {"dataset_final"}
          /\ \A k \in DOMAIN cleaned_data \ {"dataset_final"} :
                cleaned_data'[k] = cleaned_data[k]
          /\ erreur' = "" <=> "dataset_final" \in DOMAIN cleaned_data'
          /\ Cleaned("dataset_final") => cleaned_data' = cleaned_data]_vars

\* the four tables after an aggregation: the cleaned transactions have no client
\* column, the unified dataset has them
C30_Witness ==
    /\ appelant = "client"
    /\ pc = "charger"
    /\ erreur = ""
    /\ DOMAIN cleaned_data = Sources \cup {"dataset_final"}
    /\ Len(cleaned_data["transactions"]) = 2
    /\ Len(cleaned_data["dataset_final"]) = 2
    /\ "age" \notin DOMAIN cleaned_data["transactions"][1]
    /\ "age" \in DOMAIN cleaned_data["dataset_final"][1]
    /\ DOMAIN stats_nettoyage = {"transactions", "clients"}

====
